---------------------------- MODULE Spec2Model ----------------------------
(***************************************************************************)
(* A model of src/src/matrix.rs (BraydenJonsson/rust-matrix): the generic  *)
(* dense Matrix<T>, its constructors, block operations, the Gauss-Jordan   *)
(* elimination engine and the operations derived from it (determinant,     *)
(* inverse, solve), and the tolerance comparison.                          *)
(*                                                                         *)
(* The scalar T is instantiated with exact rationals (a numerator and a    *)
(* positive denominator in lowest terms), which satisfy the trait bound    *)
(* MatrixCompatible = NumAssign + Signed + Copy.  Indices are 0-based as   *)
(* in the source; TLA+ sequences are 1-based, so a cell access adds one.   *)
(* A panic is an outcome of kind "panic"; a Result is an outcome of kind   *)
(* "ok" or "err".                                                          *)
(***************************************************************************)
EXTENDS Integers, Sequences, FiniteSets, TLC

VARIABLES a, b, delta, op, res

vars == <<a, b, delta, op, res>>

(***************************************************************************)
(* Bounds of the explored inputs.                                          *)
(***************************************************************************)
\* largest number of rows and of columns of an input matrix
MaxDim == 2
\* largest sum of the absolute values of the integer entries of one input
MaxWeight == 4
\* largest tolerance numerator (tolerances are k/2, k in 0..MaxDelta)
MaxDelta == 2
\* largest spare capacity (capacity - length) of an input Vec
MaxSpare == 1

(***************************************************************************)
(* The scalar type T: exact rationals <<n, d>>, d > 0, gcd(n, d) = 1.      *)
(***************************************************************************)
Abs(x) == IF x < 0 THEN 0 - x ELSE x

RECURSIVE GCD(_, _)
GCD(x, y) == IF y = 0 THEN x ELSE GCD(y, x % y)

Rat(n, d) ==
    LET s == IF d < 0 THEN 0 - 1 ELSE 1
        g == GCD(Abs(n), Abs(d))
    IN  <<(s * n) \div g, (s * d) \div g>>

Zero == <<0, 1>>
One == <<1, 1>>

FromInt(n) == <<n, 1>>

RAdd(x, y) == Rat(x[1] * y[2] + y[1] * x[2], x[2] * y[2])
RSub(x, y) == Rat(x[1] * y[2] - y[1] * x[2], x[2] * y[2])
RMul(x, y) == Rat(x[1] * y[1], x[2] * y[2])
RDiv(x, y) == Rat(x[1] * y[2], x[2] * y[1])
RNeg(x) == <<0 - x[1], x[2]>>
RLeq(x, y) == x[1] * y[2] <= y[1] * x[2]
is_positive(x) == x[1] > 0
is_zero(x) == x[1] = 0

\* num_traits::sign::abs_sub: "the positive difference of two numbers":
\* zero if x <= y, else x - y
abs_sub(x, y) == IF RLeq(x, y) THEN Zero ELSE RSub(x, y)

(***************************************************************************)
(* Outcomes of a call.                                                     *)
(***************************************************************************)
Ok(v) == [kind |-> "ok", val |-> v]
Err(msg) == [kind |-> "err", val |-> msg]
Panic(msg) == [kind |-> "panic", val |-> msg]

(***************************************************************************)
(* Matrix<T>: the stored grid with the cached rows and columns counts.     *)
(***************************************************************************)
Mat(grid, rows, columns) == [matrix |-> grid, rows |-> rows, columns |-> columns]

\* self[row][column], 0-based
at(self, row, column) == self.matrix[row + 1][column + 1]

new(rows, columns) ==
    Mat([r \in 1..rows |-> [c \in 1..columns |-> Zero]], rows, columns)

square_matrix(size) == new(size, size)

\* self.matrix[row][column] = value: the indexing panics outside the stored
\* grid, whatever the rows and columns fields say
set_value(self, row, column, value) ==
    IF row >= Len(self.matrix)
    THEN Panic("index out of bounds")
    ELSE IF column >= Len(self.matrix[row + 1])
         THEN Panic("index out of bounds")
         ELSE Ok([self EXCEPT !.matrix[row + 1][column + 1] = value])

\* the loop of identity_matrix: ones set at (i, i) for the first n rows
RECURSIVE SetDiagonal(_, _)
SetDiagonal(m, n) ==
    IF n = 0 THEN Ok(m)
    ELSE LET before == SetDiagonal(m, n - 1)
         IN  IF before.kind = "panic" THEN before
             ELSE set_value(before.val, n - 1, n - 1, One)

identity_matrix(size) ==
    LET m == square_matrix(size) IN SetDiagonal(m, m.rows)

matrix_from_list(list_of_numbers, rows, columns) ==
    IF Len(list_of_numbers) # rows * columns
    THEN Panic("This list size does not match the dimensions!")
    ELSE Ok(Mat([r \in 1..rows |->
                    [c \in 1..columns |-> list_of_numbers[(r - 1) * columns + c]]],
                rows, columns))

square_matrix_from_list(list_of_numbers) ==
    IF ~\E k \in 0..Len(list_of_numbers) : k * k = Len(list_of_numbers)
    THEN Panic("This list size is not a perfect square!")
    ELSE LET matrix_size == CHOOSE k \in 0..Len(list_of_numbers) :
                                k * k = Len(list_of_numbers)
         IN  Ok(Mat([r \in 1..matrix_size |->
                        [c \in 1..matrix_size |->
                            list_of_numbers[(r - 1) * matrix_size + c]]],
                    matrix_size, matrix_size))

\* A Vec with its length (Len(items)) and its capacity
Vec(items, cap) == [items |-> items, cap |-> cap]

\* Clone for Matrix: self.rows rows are read from the stored grid and pushed
\* into a Vec of that capacity, which panics when fewer rows are stored
clone(self) ==
    IF self.rows > Len(self.matrix)
    THEN Panic("index out of bounds")
    ELSE Ok(Mat([i \in 1..self.rows |-> self.matrix[i]], self.rows, self.columns))

from_vector(vector) ==
    IF Len(vector.items) = 0
    THEN Panic("index out of bounds")
    ELSE LET rows == vector.cap
             columns == vector.items[1].cap
         IN  IF \E r \in 1..Len(vector.items) : columns # vector.items[r].cap
             THEN Panic("This matrix doesn't have equal column sizes!")
             ELSE Ok(Mat([r \in 1..Len(vector.items) |-> vector.items[r].items],
                         rows, columns))

partition(self, starting_row, ending_row, starting_column, ending_column) ==
    Mat([r \in 1..(ending_row - starting_row) |->
            [c \in 1..(ending_column - starting_column) |->
                at(self, starting_row + r - 1, starting_column + c - 1)]],
        ending_row - starting_row, ending_column - starting_column)

combine(self, rhs) ==
    IF self.rows # rhs.rows
    THEN Panic("These two matrices must have the same number of rows!")
    ELSE Ok(Mat([r \in 1..self.rows |->
                    [c \in 1..(self.columns + rhs.columns) |->
                        IF c <= self.columns
                        THEN at(self, r - 1, c - 1)
                        ELSE at(rhs, r - 1, c - 1 - self.columns)]],
                self.rows, self.columns + rhs.columns))

(***************************************************************************)
(* The elimination engine.                                                 *)
(***************************************************************************)
\* The first nonzero entry, columns from current_pivot_column upward and in
\* each column rows from current_pivot_row downward
\* The scan stops at the first cell that is nonzero, or that lies past the
\* end of its stored row, where the indexing panics
FindPivot(om, cpr, cpc, rows, columns) ==
    LET cands == {p \in (cpc..(columns - 1)) \X (cpr..(rows - 1)) :
                      \/ p[1] >= Len(om[p[2] + 1])
                      \/ om[p[2] + 1][p[1] + 1] # Zero}
    IN  IF cands = {}
        THEN [changed |-> FALSE, row |-> 0, column |-> 0, panic |-> FALSE]
        ELSE LET p == CHOOSE p \in cands : \A q \in cands :
                          p[1] < q[1] \/ (p[1] = q[1] /\ p[2] <= q[2])
             IN  IF p[1] >= Len(om[p[2] + 1])
                 THEN [changed |-> FALSE, row |-> p[2], column |-> p[1],
                       panic |-> TRUE]
                 ELSE [changed |-> TRUE, row |-> p[2], column |-> p[1],
                       panic |-> FALSE]

\* operating_matrix.swap(row, current_pivot_row)
SwapRows(om, i, j) ==
    [r \in 1..Len(om) |-> IF r = i + 1 THEN om[j + 1]
                          ELSE IF r = j + 1 THEN om[i + 1] ELSE om[r]]

\* NegateDet without the sign flip of a row swap
NegateDetDropped(d) == d

\* determinant *= negative_one
NegateDet(d) == RMul(d, RNeg(One))

\* NormalizeRow starting one column late: the pivot itself is not divided
NormalizeRowAfterPivot(om, cpr, cpc, columns) ==
    LET factor == om[cpr + 1][cpc + 1]
    IN  [om EXCEPT ![cpr + 1] =
            [c \in 1..Len(om[cpr + 1]) |->
                IF c - 1 > cpc /\ c - 1 < columns
                THEN RDiv(om[cpr + 1][c], factor) ELSE om[cpr + 1][c]]]

\* Set the pivot to 1: the pivot row from the pivot column on, divided by factor
NormalizeRow(om, cpr, cpc, columns) ==
    LET factor == om[cpr + 1][cpc + 1]
    IN  [om EXCEPT ![cpr + 1] =
            [c \in 1..Len(om[cpr + 1]) |->
                IF c - 1 >= cpc /\ c - 1 < columns
                THEN RDiv(om[cpr + 1][c], factor) ELSE om[cpr + 1][c]]]

\* ReduceRows reducing the rows underneath the pivot row only
ReduceRowsUnderneath(om, cpr, cpc, rows, columns) ==
    [r \in 1..Len(om) |->
        IF r - 1 >= rows \/ r - 1 <= cpr \/ om[r][cpc + 1] = Zero
        THEN om[r]
        ELSE LET factor == om[r][cpc + 1]
             IN  [c \in 1..Len(om[r]) |->
                    IF c - 1 >= cpc /\ c - 1 < columns
                    THEN RSub(om[r][c], RMul(om[cpr + 1][c], factor))
                    ELSE om[r][c]]]

\* Reduce down all rows above and underneath
ReduceRows(om, cpr, cpc, rows, columns) ==
    [r \in 1..Len(om) |->
        IF r - 1 >= rows \/ r - 1 = cpr \/ om[r][cpc + 1] = Zero
        THEN om[r]
        ELSE LET factor == om[r][cpc + 1]
             IN  [c \in 1..Len(om[r]) |->
                    IF c - 1 >= cpc /\ c - 1 < columns
                    THEN RSub(om[r][c], RMul(om[cpr + 1][c], factor))
                    ELSE om[r][c]]]

\* the normalisation indexes the pivot row up to the last column
NormalizeOverruns(om, cpr, columns) == Len(om[cpr + 1]) < columns

\* the reduction indexes every row at the pivot column, and every row with a
\* nonzero entry there up to the last column
ReduceOverruns(om, cpr, cpc, rows, columns) ==
    \E r \in 1..rows :
        \/ Len(om[r]) <= cpc
        \/ /\ r - 1 # cpr
           /\ om[r][cpc + 1] # Zero
           /\ Len(om[r]) < columns

\* The locals before the while loop; operating_matrix is the grid of
\* self.clone(), and nothing exists when the clone panics
ElimInit(self) ==
    LET copy == clone(self)
    IN  IF copy.kind = "panic" THEN copy
        ELSE [operating_matrix |-> copy.val.matrix,
              current_pivot_row |-> 0,
              current_pivot_column |-> 0,
              determinant |-> One,
              running |-> TRUE]

\* the call has panicked: st is the panic, not the locals
Panicked(st) == "kind" \in DOMAIN st

ElimCond(self, st) ==
    /\ ~Panicked(st)
    /\ st.running
    /\ self.rows - st.current_pivot_row > 0
    /\ self.columns - st.current_pivot_column > 0

\* One iteration of the while loop
ElimIter(self, st) ==
    LET piv == FindPivot(st.operating_matrix, st.current_pivot_row,
                         st.current_pivot_column, self.rows, self.columns)
    IN  IF piv.panic
        THEN Panic("index out of bounds")
        ELSE IF ~piv.changed
        THEN [st EXCEPT !.running = FALSE]
        ELSE LET swapped == IF st.current_pivot_row # piv.row
                            THEN SwapRows(st.operating_matrix, piv.row,
                                          st.current_pivot_row)
                            ELSE st.operating_matrix
                 det1 == IF st.current_pivot_row # piv.row
                         THEN NegateDet(st.determinant)
                         ELSE st.determinant
                 factor == swapped[st.current_pivot_row + 1][piv.column + 1]
                 normal == NormalizeRow(swapped, st.current_pivot_row,
                                        piv.column, self.columns)
                 reduced == ReduceRows(normal, st.current_pivot_row,
                                       piv.column, self.rows, self.columns)
             IN  IF \/ NormalizeOverruns(swapped, st.current_pivot_row,
                                         self.columns)
                    \/ ReduceOverruns(swapped, st.current_pivot_row,
                                      piv.column, self.rows, self.columns)
                 THEN Panic("index out of bounds")
                 ELSE [operating_matrix |-> reduced,
                       current_pivot_row |-> st.current_pivot_row + 1,
                       current_pivot_column |-> piv.column + 1,
                       determinant |-> RMul(det1, factor),
                       running |-> TRUE]

RECURSIVE ElimRun(_, _)
ElimRun(self, st) ==
    IF ElimCond(self, st) THEN ElimRun(self, ElimIter(self, st)) ELSE st

\* Determinant reporting after the loop: the diagonal is read row by row
\* up to its first zero, and a row too short for its diagonal cell panics
DetOutput(self, st) ==
    IF self.rows # self.columns
    THEN Err("The matrix was not square")
    ELSE LET om == st.operating_matrix
             stops == {i \in 1..Len(om) : Len(om[i]) < i \/ om[i][i] = Zero}
         IN  IF stops = {}
             THEN Ok(st.determinant)
             ELSE LET first == CHOOSE i \in stops : \A k \in stops : i <= k
                  IN  IF Len(om[first]) < first
                      THEN Panic("index out of bounds")
                      ELSE Ok(Zero)

\* What follows the loop: the determinant reporting, then from_vector on
\* operating_matrix, whose capacity is the clone's with_capacity(self.rows)
\* and whose rows are clones with no spare capacity
ElimResult(self, st) ==
    IF Panicked(st) THEN st
    ELSE LET det_output == DetOutput(self, st)
             om == st.operating_matrix
             fv == from_vector(Vec([r \in 1..Len(om) |-> Vec(om[r], Len(om[r]))],
                                   self.rows))
         IN  IF det_output.kind = "panic" THEN det_output
             ELSE IF fv.kind = "panic" THEN fv
             ELSE Ok(<<fv.val, det_output>>)

reduced_echelon_and_det(self) ==
    ElimResult(self, ElimRun(self, ElimInit(self)))

reduced_echelon_form(self) ==
    LET rd == reduced_echelon_and_det(self)
    IN  IF rd.kind = "panic" THEN rd ELSE Ok(rd.val[1])

\* determinant without its own shape check, handing on the Result
determinant_unchecked(self) ==
    LET rd == reduced_echelon_and_det(self)
    IN  IF rd.kind = "panic" THEN rd ELSE rd.val[2]

determinant(self) ==
    IF self.rows # self.columns
    THEN Panic("This matrix is not square!")
    ELSE LET rd == reduced_echelon_and_det(self)
         IN  IF rd.kind = "panic" THEN rd
             ELSE IF rd.val[2].kind = "err"
                  THEN Panic("called Result::unwrap() on an Err value")
                  ELSE Ok(rd.val[2].val)

\* Equality within a tolerance
equals(self, other, d) ==
    IF self.rows # other.rows \/ self.columns # other.columns
    THEN FALSE
    ELSE \A row \in 0..(self.rows - 1), column \in 0..(self.columns - 1) :
            LET difference == abs_sub(at(self, row, column), at(other, row, column))
            IN  ~(is_positive(RSub(difference, d)) /\ ~is_zero(RSub(difference, d)))

eq(self, other) == equals(self, other, Zero)

RECURSIVE InnerSum(_, _, _)
InnerSum(x, y, i) ==
    IF i = 0 THEN Zero ELSE RAdd(InnerSum(x, y, i - 1), RMul(x[i], y[i]))

inner_product(x, y) ==
    IF Len(x) # Len(y)
    THEN Panic("These vectors are of different sizes!")
    ELSE Ok(InnerSum(x, y, Len(x)))

\* self[row][column] for every row below rows and column below columns is
\* stored: the indexing does not panic
Covered(self, rows, columns) ==
    \A row \in 0..(rows - 1), column \in 0..(columns - 1) :
        /\ row < Len(self.matrix)
        /\ column < Len(self.matrix[row + 1])

\* self + rhs
add(self, rhs) ==
    IF self.rows # rhs.rows \/ self.columns # rhs.columns
    THEN Panic("Matrix size mismatch!")
    ELSE IF \/ ~Covered(self, self.rows, self.columns)
            \/ ~Covered(rhs, self.rows, self.columns)
         THEN Panic("index out of bounds")
         ELSE Ok(Mat([r \in 1..self.rows |->
                         [c \in 1..self.columns |->
                             RAdd(at(self, r - 1, c - 1), at(rhs, r - 1, c - 1))]],
                     self.rows, self.columns))

\* self * rhs for a scalar rhs
mul_scalar(self, rhs) ==
    IF ~Covered(self, self.rows, self.columns)
    THEN Panic("index out of bounds")
    ELSE Ok(Mat([r \in 1..self.rows |->
                    [c \in 1..self.columns |-> RMul(at(self, r - 1, c - 1), rhs)]],
                self.rows, self.columns))

\* self - rhs: rhs scaled by minus one, then added
sub(self, rhs) ==
    LET negative_rhs == mul_scalar(rhs, RNeg(One))
    IN  IF negative_rhs.kind = "panic" THEN negative_rhs
        ELSE add(self, negative_rhs.val)

\* self * rhs for a matrix rhs; the cells are read only when the output
\* has any
mul(self, rhs) ==
    IF self.columns # rhs.rows
    THEN Panic("Left hand columns must equal right hand rows!")
    ELSE IF /\ self.rows > 0 /\ rhs.columns > 0
            /\ \/ ~Covered(self, self.rows, self.columns)
               \/ ~Covered(rhs, self.columns, rhs.columns)
    THEN Panic("index out of bounds")
    ELSE Ok(Mat([r \in 1..self.rows |->
                    [c \in 1..rhs.columns |->
                        inner_product([i \in 1..self.columns |-> self.matrix[r][i]],
                                      [i \in 1..self.columns |-> rhs.matrix[i][c]]).val]],
                self.rows, rhs.columns))

\* self += rhs:  *self = self.clone() + rhs
add_assign(self, rhs) ==
    LET copy == clone(self)
    IN  IF copy.kind = "panic" THEN copy ELSE add(copy.val, rhs)

\* self -= rhs
sub_assign(self, rhs) ==
    LET copy == clone(self)
    IN  IF copy.kind = "panic" THEN copy ELSE sub(copy.val, rhs)

\* self *= rhs for a matrix rhs
mul_assign(self, rhs) ==
    LET copy == clone(self)
    IN  IF copy.kind = "panic" THEN copy ELSE mul(copy.val, rhs)

\* self *= rhs for a scalar rhs
mul_assign_scalar(self, rhs) ==
    LET copy == clone(self)
    IN  IF copy.kind = "panic" THEN copy ELSE mul_scalar(copy.val, rhs)

transpose(self) ==
    Mat([r \in 1..self.columns |-> [c \in 1..self.rows |-> self.matrix[c][r]]],
        self.columns, self.rows)

inverse(self) ==
    IF self.rows # self.columns
    THEN Panic("This matrix is not square!")
    ELSE LET identity == identity_matrix(self.rows).val
             rm == reduced_echelon_form(combine(self, identity).val)
         IN  IF rm.kind = "panic" THEN rm
             ELSE IF ~eq(partition(rm.val, 0, self.rows, 0, self.columns), identity)
                  THEN Err("Matrix is not invertible")
                  ELSE Ok(partition(rm.val, 0, self.rows, self.columns,
                                    rm.val.columns))

\* The walk of get_x_vector over the columns, with its row cursor
RECURSIVE XWalk(_, _, _, _)
XWalk(sm, column_index, current_row_index, x_vector) ==
    LET last_column_index == sm.columns - 1
    IN  IF column_index >= last_column_index
        THEN Ok(x_vector)
        ELSE IF current_row_index >= Len(sm.matrix)
             THEN Panic("index out of bounds")
             ELSE IF at(sm, current_row_index, column_index) = One
                  THEN XWalk(sm, column_index + 1, current_row_index + 1,
                             Append(x_vector,
                                    at(sm, current_row_index, last_column_index)))
                  ELSE XWalk(sm, column_index + 1, current_row_index,
                             Append(x_vector, Zero))

get_x_vector(solved_matrix) == XWalk(solved_matrix, 0, 0, <<>>)

\* CheckFails scanning the augmented column with the coefficient columns
CheckFailsAnyColumn(sm, row_index) ==
    LET last_column_index == sm.columns - 1
    IN  /\ at(sm, row_index, last_column_index) # Zero
        /\ ~\E column_index \in 0..last_column_index :
                at(sm, row_index, column_index) # Zero

\* A row of the reduced augmented matrix of the form 0 = c, c # 0
CheckFails(sm, row_index) ==
    LET last_column_index == sm.columns - 1
    IN  /\ at(sm, row_index, last_column_index) # Zero
        /\ ~\E column_index \in 0..(last_column_index - 1) :
                at(sm, row_index, column_index) # Zero

solve(self, bv) ==
    IF Len(bv) # self.rows
    THEN Panic("Your b vector is not the correct length!")
    ELSE LET b_matrix == matrix_from_list(bv, Len(bv), 1).val
             sm == reduced_echelon_form(combine(self, b_matrix).val)
         IN  IF sm.kind = "panic" THEN sm
             ELSE IF \E row_index \in 0..(sm.val.rows - 1) :
                        CheckFails(sm.val, row_index)
                  THEN Err("The system was inconsistent and there is no solution for b.")
                  ELSE get_x_vector(sm.val)

(***************************************************************************)
(* Input families.                                                         *)
(***************************************************************************)
ToScalars(s) == [i \in 1..Len(s) |-> FromInt(s[i])]

\* the matrix of a shape built from such a list
InputMatrix(s, rows, columns) == matrix_from_list(ToScalars(s), rows, columns).val

None == "none"

\* the rows of the given lengths cut from a list, each with its spare capacity
RECURSIVE CutRows(_, _, _)
CutRows(s, lens, spares) ==
    IF lens = <<>> THEN <<>>
    ELSE <<Vec(ToScalars(SubSeq(s, 1, Head(lens))), Head(lens) + Head(spares))>>
         \o CutRows(SubSeq(s, Head(lens) + 1, Len(s)), Tail(lens), Tail(spares))

RECURSIVE SumSeq(_)
SumSeq(s) == IF s = <<>> THEN 0 ELSE Head(s) + SumSeq(Tail(s))

\* The operands a and b built from a drawn list of integers, by kind of input
InputIs(s, k) ==
    CASE k.kind = "matrix" ->
            /\ a = InputMatrix(s, k.rows, k.columns)
            /\ b = None
      [] k.kind = "two matrices" ->
            /\ a = InputMatrix(SubSeq(s, 1, k.rows * k.columns), k.rows, k.columns)
            /\ b = InputMatrix(SubSeq(s, k.rows * k.columns + 1, Len(s)),
                               k.rows2, k.columns2)
      [] k.kind = "system" ->
            /\ a = InputMatrix(SubSeq(s, 1, k.rows * k.columns), k.rows, k.columns)
            /\ b = ToScalars(SubSeq(s, k.rows * k.columns + 1, Len(s)))
      [] k.kind = "vector" ->
            /\ a = [vector |-> Vec(CutRows(s, k.lens, k.spares), k.cap)]
            /\ b = None
      [] k.kind = "list" ->
            /\ a = [list |-> ToScalars(s), rows |-> k.rows, columns |-> k.columns]
            /\ b = None

\* Every list of len more integers whose absolute values sum to at most w,
\* appended to s, is an input
RECURSIVE Draw(_, _, _, _)
Draw(s, len, w, k) ==
    IF len = 0 THEN InputIs(s, k)
    ELSE \E v \in (0 - w)..w : Draw(Append(s, v), len - 1, w - Abs(v), k)


(***************************************************************************)
(* Determinant and inverse of a matrix.                                    *)
(***************************************************************************)
InitDet ==
    /\ \E rows \in 1..MaxDim, columns \in 1..MaxDim :
          Draw(<<>>, rows * columns, MaxWeight,
               [kind |-> "matrix", rows |-> rows, columns |-> columns])
    /\ delta = Zero
    /\ op = None
    /\ res = None

ReducedEchelonAndDet ==
    /\ op = None
    /\ op' = "reduced_echelon_and_det"
    /\ res' = reduced_echelon_and_det(a)
    /\ UNCHANGED <<a, b, delta>>

Determinant ==
    /\ op = None
    /\ op' = "determinant"
    /\ res' = determinant(a)
    /\ UNCHANGED <<a, b, delta>>

Inverse ==
    /\ op = None
    /\ op' = "inverse"
    /\ res' = inverse(a)
    /\ UNCHANGED <<a, b, delta>>

NextDet == ReducedEchelonAndDet \/ Determinant \/ Inverse

SpecDet == InitDet /\ [][NextDet]_vars

(***************************************************************************)
(* Comparison of two matrices.                                             *)
(***************************************************************************)
InitEq ==
    /\ \E ra \in 1..MaxDim, ca \in 1..MaxDim, rb \in 1..MaxDim, cb \in 1..MaxDim :
          Draw(<<>>, ra * ca + rb * cb, MaxWeight,
               [kind |-> "two matrices", rows |-> ra, columns |-> ca,
                rows2 |-> rb, columns2 |-> cb])
    /\ delta \in {Rat(k, 2) : k \in 0..MaxDelta}
    /\ op = None
    /\ res = None

Equals ==
    /\ op = None
    /\ op' = "equals"
    /\ res' = Ok(equals(a, b, delta))
    /\ UNCHANGED <<a, b, delta>>

Eq ==
    /\ op = None
    /\ op' = "eq"
    /\ res' = Ok(eq(a, b))
    /\ UNCHANGED <<a, b, delta>>

NextEq == Equals \/ Eq

SpecEq == InitEq /\ [][NextEq]_vars

(***************************************************************************)
(* Solving A x = b.                                                        *)
(***************************************************************************)
InitSolve ==
    /\ \E rows \in 1..MaxDim, columns \in 1..MaxDim :
          Draw(<<>>, rows * columns + rows, MaxWeight,
               [kind |-> "system", rows |-> rows, columns |-> columns])
    /\ delta = Zero
    /\ op = None
    /\ res = None

Solve ==
    /\ op = None
    /\ op' = "solve"
    /\ res' = solve(a, b)
    /\ UNCHANGED <<a, b, delta>>

NextSolve == Solve

SpecSolve == InitSolve /\ [][NextSolve]_vars

(***************************************************************************)
(* Reduction of a matrix, and of the reduced matrix again.                 *)
(***************************************************************************)
InitRref == InitDet

ReducedEchelonForm ==
    /\ op = None
    /\ op' = "reduced_echelon_form"
    /\ res' = reduced_echelon_form(a)
    /\ UNCHANGED <<a, b, delta>>

\* let r = a.reduced_echelon_form(); r.reduced_echelon_form()
\* (a becomes r, and b keeps the matrix r was reduced from)
ReducedEchelonFormAgain ==
    /\ op = "reduced_echelon_form"
    /\ res.kind = "ok"
    /\ op' = "reduced_echelon_form again"
    /\ a' = res.val
    /\ b' = a
    /\ res' = reduced_echelon_form(res.val)
    /\ UNCHANGED delta

NextRref == ReducedEchelonForm \/ ReducedEchelonFormAgain

SpecRref == InitRref /\ [][NextRref]_vars

(***************************************************************************)
(* Construction of matrices.  The argument is either a nested Vec, each    *)
(* Vec with its capacity, or a flat list with the requested dimensions.    *)
(***************************************************************************)
InitCtor ==
    /\ \/ \E n \in 1..MaxDim :
            \E lens \in [1..n -> 0..MaxDim], spares \in [1..n -> 0..MaxSpare],
               spare \in 0..MaxSpare :
                Draw(<<>>, SumSeq(lens), MaxWeight,
                     [kind |-> "vector", lens |-> lens, spares |-> spares,
                      cap |-> n + spare])
       \/ \E rows \in 1..MaxDim, columns \in 1..MaxDim, n \in 0..(MaxDim * MaxDim) :
            Draw(<<>>, n, MaxWeight,
                 [kind |-> "list", rows |-> rows, columns |-> columns])
    /\ delta = Zero
    /\ op = None
    /\ res = None

HasVector == "vector" \in DOMAIN a
Constructors ==
    {"from_vector", "matrix_from_list", "square_matrix_from_list", "new",
     "identity_matrix"}
HasList == "list" \in DOMAIN a

FromVector ==
    /\ op = None /\ HasVector
    /\ op' = "from_vector"
    /\ res' = from_vector(a.vector)
    /\ UNCHANGED <<a, b, delta>>

MatrixFromList ==
    /\ op = None /\ HasList
    /\ op' = "matrix_from_list"
    /\ res' = matrix_from_list(a.list, a.rows, a.columns)
    /\ UNCHANGED <<a, b, delta>>

SquareMatrixFromList ==
    /\ op = None /\ HasList
    /\ op' = "square_matrix_from_list"
    /\ res' = square_matrix_from_list(a.list)
    /\ UNCHANGED <<a, b, delta>>

New ==
    /\ op = None /\ HasList
    /\ op' = "new"
    /\ res' = Ok(new(a.rows, a.columns))
    /\ UNCHANGED <<a, b, delta>>

IdentityMatrix ==
    /\ op = None /\ HasList
    /\ op' = "identity_matrix"
    /\ res' = identity_matrix(a.rows)
    /\ UNCHANGED <<a, b, delta>>

\* matrix_from_list(..).transpose()
Transpose ==
    /\ op = None /\ HasList
    /\ matrix_from_list(a.list, a.rows, a.columns).kind = "ok"
    /\ op' = "transpose"
    /\ res' = Ok(transpose(matrix_from_list(a.list, a.rows, a.columns).val))
    /\ UNCHANGED <<a, b, delta>>

\* matrix_from_list(..).reduced_echelon_form()
ReducedEchelonFormOfList ==
    /\ op = None /\ HasList
    /\ matrix_from_list(a.list, a.rows, a.columns).kind = "ok"
    /\ op' = "reduced_echelon_form"
    /\ res' = reduced_echelon_form(matrix_from_list(a.list, a.rows, a.columns).val)
    /\ UNCHANGED <<a, b, delta>>

\* from_vector(..).reduced_echelon_form()
ReducedEchelonFormOfVector ==
    /\ op = None /\ HasVector
    /\ from_vector(a.vector).kind = "ok"
    /\ op' = "reduced_echelon_form of vector"
    /\ res' = reduced_echelon_form(from_vector(a.vector).val)
    /\ UNCHANGED <<a, b, delta>>

\* m.set_value(row, column, one) on a constructed matrix m, the indices
\* within the matrix or past it
SetValue ==
    /\ op \in Constructors
    /\ res.kind = "ok"
    /\ \E row \in 0..MaxDim, column \in 0..MaxDim :
          res' = set_value(res.val, row, column, One)
    /\ op' = "set_value"
    /\ UNCHANGED <<a, b, delta>>

\* the right-hand matrices of the assigning operators: every shape filled
\* with one or with minus one, and the identity matrices
Operands ==
    {matrix_from_list([i \in 1..(rows * columns) |-> FromInt(v)], rows, columns).val :
        rows \in 1..MaxDim, columns \in 1..MaxDim, v \in {0 - 1, 1}}
    \cup {identity_matrix(size).val : size \in 1..MaxDim}

\* m += rhs on a constructed matrix m
AddAssign ==
    /\ op \in Constructors
    /\ res.kind = "ok"
    /\ \E rhs \in Operands : res' = add_assign(res.val, rhs)
    /\ op' = "add_assign"
    /\ UNCHANGED <<a, b, delta>>

\* m -= rhs on a constructed matrix m
SubAssign ==
    /\ op \in Constructors
    /\ res.kind = "ok"
    /\ \E rhs \in Operands : res' = sub_assign(res.val, rhs)
    /\ op' = "sub_assign"
    /\ UNCHANGED <<a, b, delta>>

\* m *= rhs on a constructed matrix m, rhs a matrix
MulAssign ==
    /\ op \in Constructors
    /\ res.kind = "ok"
    /\ \E rhs \in Operands : res' = mul_assign(res.val, rhs)
    /\ op' = "mul_assign"
    /\ UNCHANGED <<a, b, delta>>

\* m *= rhs on a constructed matrix m, rhs a scalar
MulAssignScalar ==
    /\ op \in Constructors
    /\ res.kind = "ok"
    /\ \E rhs \in {FromInt(0 - 1), FromInt(2)} :
          res' = mul_assign_scalar(res.val, rhs)
    /\ op' = "mul_assign by a scalar"
    /\ UNCHANGED <<a, b, delta>>

NextCtor ==
    \/ FromVector
    \/ MatrixFromList
    \/ SquareMatrixFromList
    \/ New
    \/ IdentityMatrix
    \/ Transpose
    \/ ReducedEchelonFormOfList
    \/ ReducedEchelonFormOfVector
    \/ SetValue
    \/ AddAssign
    \/ SubAssign
    \/ MulAssign
    \/ MulAssignScalar

SpecCtor == InitCtor /\ [][NextCtor]_vars

(***************************************************************************)
(* The elimination loop of reduced_echelon_and_det, one iteration at a     *)
(* time.  res holds the locals of the loop and b counts the passes through *)
(* the loop body, the pass that breaks included.                           *)
(***************************************************************************)
InitElim == InitDet

\* the locals before the loop
StartElimination ==
    /\ op = None
    /\ op' = "eliminating"
    /\ res' = ElimInit(a)
    /\ b' = 0
    /\ UNCHANGED <<a, delta>>

\* one pass through the loop body: a pivot is found and reduced, or the
\* loop breaks
EliminationStep ==
    /\ op = "eliminating"
    /\ ElimCond(a, res)
    /\ res' = ElimIter(a, res)
    /\ b' = b + 1
    /\ UNCHANGED <<a, delta, op>>

\* what follows the loop: the determinant reporting and the result
FinishElimination ==
    /\ op = "eliminating"
    /\ ~ElimCond(a, res)
    /\ op' = "eliminated"
    /\ res' = ElimResult(a, res)
    /\ UNCHANGED <<a, b, delta>>

NextElim == StartElimination \/ EliminationStep \/ FinishElimination

SpecElim == InitElim /\ [][NextElim]_vars

(***************************************************************************)
(* Reference notions the properties are stated with: the absolute          *)
(* difference, the determinant by cofactor expansion, and the rank as the  *)
(* size of the largest nonzero minor.                                      *)
(***************************************************************************)
AbsDiff(x, y) == IF RLeq(x, y) THEN RSub(y, x) ELSE RSub(x, y)

SameShape(m, n) == m.rows = n.rows /\ m.columns = n.columns

IsSquare(m) == m.rows = m.columns

ShapeOK(m) ==
    /\ m.rows = Len(m.matrix)
    /\ \A r \in 1..Len(m.matrix) : Len(m.matrix[r]) = m.columns

\* a sequence without its j-th element
Without(cs, j) == [i \in 1..(Len(cs) - 1) |-> IF i < j THEN cs[i] ELSE cs[i + 1]]

\* the determinant of the rows rs and columns cs of a grid, expanded along
\* the first of the rows
RECURSIVE MinorDet(_, _, _)
RECURSIVE Laplace(_, _, _, _)
\* the sum of the first j terms of the expansion
Laplace(g, rs, cs, j) ==
    IF j = 0 THEN Zero
    ELSE LET term == RMul(g[rs[1]][cs[j]], MinorDet(g, Tail(rs), Without(cs, j)))
         IN  RAdd(Laplace(g, rs, cs, j - 1),
                  IF j % 2 = 1 THEN term ELSE RNeg(term))

MinorDet(g, rs, cs) ==
    IF Len(rs) = 0 THEN One
    ELSE IF Len(rs) = 1 THEN g[rs[1]][cs[1]] ELSE Laplace(g, rs, cs, Len(rs))

\* the determinant of a square grid by cofactor expansion
MathDet(g) ==
    MinorDet(g, [i \in 1..Len(g) |-> i], [i \in 1..Len(g) |-> i])

\* the strictly increasing sequences of k indices out of 1..n
RECURSIVE Increasing(_, _)
Increasing(n, k) ==
    IF k = 0 THEN {<<>>}
    ELSE IF n < k THEN {}
    ELSE Increasing(n - 1, k) \cup {Append(s, n) : s \in Increasing(n - 1, k - 1)}

\* the same, tabulated for the shapes of the inputs
Selections ==
    [n \in 0..(MaxDim + 1), k \in 0..(MaxDim + 1) |-> Increasing(n, k)]

\* some k x k minor of the grid is nonzero
HasMinor(g, rows, columns, k) ==
    \E rs \in Selections[rows, k], cs \in Selections[columns, k] :
        MinorDet(g, rs, cs) # Zero

\* the rank of a grid of the given shape: the size of its largest nonzero
\* minor, searched downward from k
RECURSIVE RankFrom(_, _, _, _)
RankFrom(g, rows, columns, k) ==
    IF k = 0 \/ HasMinor(g, rows, columns, k) THEN k
    ELSE RankFrom(g, rows, columns, k - 1)

MinorRank(g, rows, columns) ==
    RankFrom(g, rows, columns, IF rows < columns THEN rows ELSE columns)

(***************************************************************************)
(* Properties of the comparison.                                           *)
(***************************************************************************)
CellsWithin(m, n, d) ==
    \A r \in 0..(m.rows - 1), c \in 0..(m.columns - 1) :
        RLeq(AbsDiff(at(m, r, c), at(n, r, c)), d)

\* C1: equals(a, b, delta) is false when the shapes differ and otherwise true
\* exactly when every cell has |a[r][c] - b[r][c]| <= delta; a == b holds
\* exactly when the shapes agree and the cells are identical, and then b == a.
C1_EqualsIsCellwiseTolerance ==
    /\ op = "equals" =>
          res.val = (SameShape(a, b) /\ CellsWithin(a, b, delta))
    /\ op = "eq" =>
          /\ res.val = (SameShape(a, b) /\ a.matrix = b.matrix)
          /\ res.val => eq(b, a)

(***************************************************************************)
(* Properties of determinant and inverse.                                  *)
(***************************************************************************)
\* the left columns-wide block of RREF([self | identity])
LeftBlock(self) ==
    partition(reduced_echelon_form(
                  combine(self, identity_matrix(self.rows).val).val).val,
              0, self.rows, 0, self.columns)

\* C2: inverse(A) returns a matrix only when the left block of
\* RREF([A | identity]) is exactly the identity; whenever the block differs
\* from the identity in any cell, inverse(A) reports the not-invertible error.
C2_InverseOnlyWhenLeftBlockIsIdentity ==
    (op = "inverse" /\ IsSquare(a)) =>
        /\ res.kind = "ok" => LeftBlock(a).matrix = identity_matrix(a.rows).val.matrix
        /\ LeftBlock(a).matrix # identity_matrix(a.rows).val.matrix => res.kind = "err"

\* C4 (as claimed): determinant or inverse of a matrix with rows # columns
\* yields a recoverable error value, not a panic.
C4_NonSquareIsRecoverableError ==
    (op \in {"determinant", "inverse"} /\ ~IsSquare(a)) => res.kind = "err"

\* C4 (amended): determinant and inverse of a matrix with rows # columns
\* panic; the recoverable not-square error is the determinant component of
\* reduced_echelon_and_det alone.
C4_NonSquarePanics ==
    /\ (op \in {"determinant", "inverse"} /\ ~IsSquare(a)) => res.kind = "panic"
    /\ (op = "reduced_echelon_and_det" /\ ~IsSquare(a)) =>
          (res.kind = "ok" /\ res.val[2].kind = "err")

C4_Witness ==
    /\ op = "determinant"
    /\ a.rows = 1 /\ a.columns = 2
    /\ res.kind = "panic"

\* C6: for every square A with nonzero determinant, inverse(A) succeeds and
\* A * inverse(A) and inverse(A) * A both equal the identity.
C6_InverseIsTwoSided ==
    (op = "inverse" /\ IsSquare(a) /\ MathDet(a.matrix) # Zero) =>
        /\ res.kind = "ok"
        /\ mul(a, res.val) = identity_matrix(a.rows)
        /\ mul(res.val, a) = identity_matrix(a.rows)

\* an invertible 2 x 2 matrix whose reduction starts with a row swap and
\* whose inverse has a non-integer entry
C6_Witness ==
    /\ op = "inverse"
    /\ a.rows = 2 /\ a.columns = 2
    /\ at(a, 0, 0) = Zero
    /\ MathDet(a.matrix) # Zero
    /\ res.kind = "ok"
    /\ \E r \in 0..1, c \in 0..1 : at(res.val, r, c)[2] # 1

\* the reported determinant against the loop's accumulated product, the
\* cofactor expansion and the rank
DeterminantAsReported(self, result) ==
    \E st \in {ElimRun(self, ElimInit(self))} :
        LET ones == \A i \in 0..(self.rows - 1) : at(result[1], i, i) = One
        IN  /\ result[2] = Ok(IF ones THEN st.determinant ELSE Zero)
            /\ result[2] = Ok(MathDet(self.matrix))
            /\ ~ones <=> MinorRank(self.matrix, self.rows, self.columns) < self.rows

\* C8: the determinant reported by reduced_echelon_and_det for a square A is
\* zero when the diagonal of the reduced grid is not entirely ones, otherwise
\* the accumulated product of the pivot factors with one sign flip per swap,
\* and it equals the determinant of A.
C8_DeterminantReported ==
    (op = "reduced_echelon_and_det" /\ IsSquare(a)) =>
        (res.kind = "ok" /\ DeterminantAsReported(a, res.val))

\* a full-rank 2 x 2 matrix reduced with a row swap
C8_Witness ==
    /\ op = "reduced_echelon_and_det"
    /\ a.rows = 2 /\ a.columns = 2
    /\ at(a, 0, 0) = Zero
    /\ res.val[2].kind = "ok"
    /\ res.val[2].val # Zero
    /\ res.val[2].val # One

(***************************************************************************)
(* Properties of solve.                                                    *)
(***************************************************************************)
BMatrix(bv) == matrix_from_list(bv, Len(bv), 1).val

\* RREF([self | bv])
Reduced(self, bv) == reduced_echelon_form(combine(self, BMatrix(bv)).val).val

\* self x = bv has a solution: the rank of [self | bv] is the rank of self
\* ([self | bv] has no nonzero minor larger than the rank of self)
Solvable(self, bv) ==
    \E augmented \in {combine(self, BMatrix(bv)).val.matrix} :
        ~HasMinor(augmented, self.rows, self.columns + 1,
                  MinorRank(self.matrix, self.rows, self.columns) + 1)

\* the coefficient column of the leading entry of a row of a reduced
\* augmented matrix, or -1
LeadColumn(reduced, row) ==
    LET nz == {c \in 0..(reduced.columns - 2) : at(reduced, row, c) # Zero}
    IN  IF nz = {} THEN 0 - 1 ELSE CHOOSE c \in nz : \A d \in nz : c <= d

IsPivotColumn(reduced, column) ==
    \E row \in 0..(reduced.rows - 1) : LeadColumn(reduced, row) = column

PivotRow(reduced, column) ==
    CHOOSE row \in 0..(reduced.rows - 1) : LeadColumn(reduced, row) = column

\* free columns zero, pivot columns the augmented value of their pivot row
ExpectedX(reduced) ==
    [i \in 1..(reduced.columns - 1) |->
        IF IsPivotColumn(reduced, i - 1)
        THEN at(reduced, PivotRow(reduced, i - 1), reduced.columns - 1)
        ELSE Zero]

\* a row of RREF([self | bv]) reads 0 = c with c # 0
HasContradictoryRow(self, bv) ==
    \E reduced \in {Reduced(self, bv)} :
        \E row \in 0..(self.rows - 1) :
            /\ at(reduced, row, self.columns) # Zero
            /\ \A c \in 0..(self.columns - 1) : at(reduced, row, c) = Zero

\* C3: for a consistent system, solve(A, b) completes without an out-of-range
\* access and returns A.columns components: zero for every free column and
\* the augmented-column value of its pivot row for every pivot column.
C3_SolveReturnsOneValuePerColumn ==
    (op = "solve" /\ Solvable(a, b)) =>
        /\ res.kind = "ok"
        /\ Len(res.val) = a.columns
        /\ \E reduced \in {Reduced(a, b)} : res.val = ExpectedX(reduced)

\* C5: whenever A x = b has a solution, solve(A, b) returns x with A x = b.
C5_SolveSatisfiesSystem ==
    (op = "solve" /\ Solvable(a, b)) =>
        /\ res.kind = "ok"
        /\ mul(a, BMatrix(res.val)) = Ok(BMatrix(b))

\* C7: solve(A, b) fails with the inconsistent-system error exactly when
\* RREF([A | b]) has a row whose augmented entry is nonzero while all its
\* coefficient entries are zero, which is exactly when A x = b has no solution.
C7_InconsistentExactlyWhenNoSolution ==
    op = "solve" =>
        /\ res.kind = "err" <=> HasContradictoryRow(a, b)
        /\ res.kind = "err" <=> ~Solvable(a, b)

\* an inconsistent system with two equal coefficient rows
C7_Witness ==
    /\ op = "solve"
    /\ a.rows = 2 /\ a.columns = 2
    /\ a.matrix[1] = a.matrix[2]
    /\ at(a, 0, 0) # Zero
    /\ b[1] # b[2]
    /\ res.kind = "err"

(***************************************************************************)
(* Properties of the reduction and of construction.                        *)
(***************************************************************************)
\* C9: reducing a reduced matrix again changes no cell.
C9_ReductionIsIdempotent ==
    op = "reduced_echelon_form again" => res = Ok(a)

\* a second reduction of a matrix the first reduction changed
C9_Witness ==
    /\ op = "reduced_echelon_form again"
    /\ b # a
    /\ a.rows = 2 /\ a.columns = 2
    /\ \E r \in 0..1, c \in 0..1 : at(a, r, c)[2] # 1
    /\ res.kind = "ok"

Ragged(vector) ==
    \E r \in 1..Len(vector.items) :
        Len(vector.items[r].items) # Len(vector.items[1].items)

\* C10: every matrix returned by a constructor or a transforming operation
\* has rows = number of stored rows and every stored row of columns
\* elements; from_vector rejects exactly the inputs with a row whose length
\* differs from the first row's and otherwise records the input's row count
\* and the first row's length.
C10_ShapeInvariant ==
    /\ (op # None /\ res.kind = "ok") => ShapeOK(res.val)
    /\ op = "from_vector" =>
          /\ Ragged(a.vector) <=> res.kind = "panic"
          /\ res.kind = "ok" =>
                /\ res.val.rows = Len(a.vector.items)
                /\ res.val.columns = Len(a.vector.items[1].items)

(***************************************************************************)
(* Properties of the elimination loop and of its result.                   *)
(***************************************************************************)
\* the column of the first nonzero entry of a row of a matrix, or -1
Leading(m, row) ==
    LET nz == {c \in 0..(m.columns - 1) : at(m, row, c) # Zero}
    IN  IF nz = {} THEN 0 - 1 ELSE CHOOSE c \in nz : \A d \in nz : c <= d

\* reduced row echelon form: every nonzero row leads with a one that is the
\* only nonzero entry of its column and lies strictly right of the leading
\* entry of the row above, which is a nonzero row
IsReducedEchelon(m) ==
    \A row \in 0..(m.rows - 1) :
        Leading(m, row) >= 0 =>
            /\ at(m, row, Leading(m, row)) = One
            /\ \A other \in 0..(m.rows - 1) :
                  other # row => at(m, other, Leading(m, row)) = Zero
            /\ row > 0 =>
                  /\ Leading(m, row - 1) >= 0
                  /\ Leading(m, row - 1) < Leading(m, row)

Smaller(x, y) == IF x < y THEN x ELSE y

\* the cursors stay within the matrix, the passes within min(rows, columns),
\* and the result is the reduced row echelon form the function returns
ElimStateOK ==
    /\ op = "eliminating" =>
          /\ res.current_pivot_row <= a.rows
          /\ res.current_pivot_column <= a.columns
          /\ b <= Smaller(a.rows, a.columns)
    /\ op = "eliminated" =>
          /\ res.kind = "ok"
          /\ IsReducedEchelon(res.val[1])
          /\ res = reduced_echelon_and_det(a)
          /\ b <= Smaller(a.rows, a.columns)

\* a pass that reduces a pivot moves the row cursor by exactly one and the
\* column cursor strictly to the right; the pass that breaks moves neither
ElimStepOK ==
    (op = "eliminating" /\ op' = "eliminating") =>
        IF res'.running
        THEN /\ res'.current_pivot_row = res.current_pivot_row + 1
             /\ res'.current_pivot_column > res.current_pivot_column
        ELSE /\ res'.current_pivot_row = res.current_pivot_row
             /\ res'.current_pivot_column = res.current_pivot_column

\* every pass through the loop body moves the row cursor by exactly one and
\* the column cursor strictly to the right
ElimPassAdvances ==
    (op = "eliminating" /\ op' = "eliminating") =>
        /\ res'.current_pivot_row = res.current_pivot_row + 1
        /\ res'.current_pivot_column > res.current_pivot_column

\* C11 as stated: the result is in reduced row echelon form, reached within
\* min(rows, columns) iterations with the cursors inside the matrix, and in
\* every iteration the row cursor advances by exactly one and the column
\* cursor strictly.  The iteration that finds no pivot advances neither.
C11_EveryIterationAdvances ==
    []ElimStateOK /\ [][ElimPassAdvances]_vars

\* C11, amended: the matrix returned by the reduction is in reduced row
\* echelon form (leading ones, each strictly right of the one above, alone in
\* their columns, zero rows last), and the loop reaches it within
\* min(rows, columns) iterations, the row cursor advancing by exactly one and
\* the column cursor strictly in every iteration that finds a pivot, neither
\* ever exceeding rows / columns; the iteration that finds none leaves both
\* where they are and ends the loop.
C11_LoopYieldsReducedEchelonForm ==
    []ElimStateOK /\ [][ElimStepOK]_vars

\* a 2 x 2 reduction of two iterations: the first swaps the rows and reduces
\* a pivot, the second finds none, and the result has its zero row last
C11_Witness ==
    /\ op = "eliminated"
    /\ a.rows = 2 /\ a.columns = 2
    /\ at(a, 0, 0) = Zero
    /\ at(a, 1, 0) # Zero
    /\ b = 2
    /\ res.kind = "ok"
    /\ IsReducedEchelon(res.val[1])
    /\ Leading(res.val[1], 0) = 0
    /\ Leading(res.val[1], 1) < 0

========================================================
